---- MODULE Spec2Model ----
(***************************************************************************)
(* Model of the proof-of-work ledger: Block (block.rs), Transaction        *)
(* (transaction.rs), Database (database.rs, rocks.rs), Miner (miner.rs)    *)
(* and the Wallet's transaction builder (wallet.rs).                       *)
(*                                                                         *)
(* SHA-256 is modelled as a collision-free symbolic digest [of |-> data].  *)
(* The hex encoding of a block hash is modelled by its first HexLen hex    *)
(* digits (numbers 0..15 for the characters '0'..'f'), computed from the   *)
(* hashed header by an arithmetic mix.  The 32-byte hash (64 hex digits)   *)
(* and the 32-bit nonce are scaled down to HexLen digits and NonceMod      *)
(* values so that the nonce search, its success and its overflow are all   *)
(* within reach of the model checker.                                      *)
(*                                                                         *)
(* An f32 amount is modelled as a whole number of the smallest amounts,    *)
(* Unit of them to the coin, with the 24-bit significand scaled down to    *)
(* MantissaBits bits: every sum and difference is rounded to the nearest   *)
(* number with that many significant bits, ties to even.                   *)
(***************************************************************************)
EXTENDS Integers, Sequences, FiniteSets, TLC

\* ------------------------------------------------------------------ sizes
\* hash: [u8; 32], hex-encoded; scaled to HexLen hex digits
HexLen == 2
\* nonce: u32; scaled to the values 0..NonceMod-1
NonceMod == 32
\* amount: f32; the smallest amounts of the model in one coin
Unit == 16
\* amount: f32; its 24-bit significand scaled to MantissaBits bits
MantissaBits == 5
\* current_reward of Miner::new
current_reward == 50 * Unit

\* bounds of the model
MaxDifficulty == 3
MaxPool == 2
MaxMines == 2
MaxTime == 2
MaxInit == 2
MaxTxLen == 3

\* ----------------------------------------------------------------- crypto
\* [0u8; 32]
ZeroHash == [of |-> <<>>]

\* crypto::calculate_sha256_hash: a collision-free digest of the data
calculate_sha256_hash(data) == [of |-> data]

RECURSIVE Pow16(_)
Pow16(n) == IF n = 0 THEN 1 ELSE 16 * Pow16(n - 1)

\* The leading HexLen hex digits of a header digest, as a number.  The header
\* data is <<index, prev_hash, timestamp, merkle_root, nonce>>.
RECURSIVE HeaderWord(_)
HeaderWord(d) ==
    LET prev == IF d[2] = ZeroHash THEN 0 ELSE HeaderWord(d[2].of)
    IN  (7 + 17 * d[1] + 5 * prev + 11 * d[3] + 9 * d[5]) % Pow16(HexLen)

\* hex::encode of a block hash: its first HexLen hex digits
hex_encode(h) ==
    IF h = ZeroHash
    THEN [i \in 1..HexLen |-> 0]
    ELSE [i \in 1..HexLen |-> (HeaderWord(h.of) \div Pow16(HexLen - i)) % 16]

\* crypto::leading_zeros_count: the number of '0' characters the string starts with
RECURSIVE leading_zeros_from(_, _)
leading_zeros_from(s, i) ==
    IF i <= Len(s) /\ s[i] = 0 THEN 1 + leading_zeros_from(s, i + 1) ELSE 0

\* a counter that counts every '0' of the string, not only the leading ones
leading_zeros_count_anywhere(s) == Cardinality({i \in 1..Len(s) : s[i] = 0})

leading_zeros_count(s) == leading_zeros_from(s, 1)

\* private keys the generator can produce (crypto::create_signing_key)
Keys == {"k1", "k2", "k3"}

\* SigningKey::from_slice accepts the key
ValidKey(k) == k \in Keys

\* crypto::get_public_key, hex-encoded
get_public_key_hex(k) == [pub_of |-> k]

\* crypto::get_public_key_hash
public_key_hash(k) == [pkh_of |-> k]

\* [0u8; 20]
ZeroPubKeyHash == [pkh_of |-> "zero"]

\* ------------------------------------------------------------ transaction
\* TxIn::new
TxIn_new(n, public_key, prev_utxo) ==
    [n |-> n, prev_utxo |-> prev_utxo, public_key |-> public_key]

\* TxOut::new
TxOut_new(amount, destination) == [amount |-> amount, destination |-> destination]

\* Transaction::new: hash zeroed, sizes from the vectors, empty signature
Transaction_new(inputs, outputs) ==
    [hash |-> ZeroHash, tx_in_sz |-> Len(inputs), tx_out_sz |-> Len(outputs),
     signature |-> <<>>, inputs |-> inputs, outputs |-> outputs]

\* Transaction::get_concatenated_inputs / calculate_inputs_hash
calculate_inputs_hash(tx) ==
    calculate_sha256_hash(
        [i \in 1..Len(tx.inputs) |->
            calculate_sha256_hash(<<tx.inputs[i].n, tx.inputs[i].prev_utxo,
                                    tx.inputs[i].public_key>>)])

\* Transaction::get_concatenated_outputs / calculate_outputs_hash
calculate_outputs_hash(tx) ==
    calculate_sha256_hash(
        [i \in 1..Len(tx.outputs) |->
            calculate_sha256_hash(<<tx.outputs[i].amount, tx.outputs[i].destination>>)])

\* the bytes with the flag read the other way round: the signature is left
\* out when add_signature is set
get_transaction_data_inverted(tx, add_signature) ==
    (IF add_signature THEN <<>> ELSE tx.signature)
        \o <<tx.tx_in_sz, tx.tx_out_sz, calculate_inputs_hash(tx), calculate_outputs_hash(tx)>>

\* Transaction::get_transaction_data: the signature (a string, here a
\* sequence of tokens, empty when unsigned) is prepended only when
\* add_signature is set
get_transaction_data(tx, add_signature) ==
    (IF add_signature THEN tx.signature ELSE <<>>)
        \o <<tx.tx_in_sz, tx.tx_out_sz, calculate_inputs_hash(tx), calculate_outputs_hash(tx)>>

\* Transaction::hash
Transaction_hash(tx) ==
    [tx EXCEPT !.hash = calculate_sha256_hash(get_transaction_data(tx, TRUE))]

\* Transaction::add_tx_input: the input is pushed, tx_in_sz is left as it was
add_tx_input(tx, tx_in) == [tx EXCEPT !.inputs = Append(@, tx_in)]

\* Transaction::add_tx_output: the output is pushed, tx_out_sz is left as it was
add_tx_output(tx, tx_out) == [tx EXCEPT !.outputs = Append(@, tx_out)]

\* testing::tx_generation::generate_tx
generate_tx(in_n, out_n) ==
    Transaction_new([i \in 1..in_n |-> TxIn_new(0, [pub_of |-> <<"PublicKey-", i - 1>>], ZeroHash)],
                    [i \in 1..out_n |-> TxOut_new(10 * Unit, ZeroPubKeyHash)])

\* ----------------------------------------------------------------- amounts
RECURSIVE Pow2(_)
Pow2(n) == IF n = 0 THEN 1 ELSE 2 * Pow2(n - 1)

\* the distance between neighbouring f32 values at the magnitude of x >= 0
RECURSIVE f32_spacing(_)
f32_spacing(x) == IF x < Pow2(MantissaBits) THEN 1 ELSE 2 * f32_spacing(x \div 2)

\* rounding of a real result to f32: the nearest value, a tie to the even one
f32_round(x) ==
    LET magnitude == IF x < 0 THEN 0 - x ELSE x
        spacing == f32_spacing(magnitude)
        below == (magnitude \div spacing) * spacing
        rest == magnitude - below
        nearest == IF 2 * rest < spacing THEN below
                   ELSE IF 2 * rest > spacing THEN below + spacing
                   ELSE IF (below \div spacing) % 2 = 0 THEN below
                   ELSE below + spacing
    IN  IF x < 0 THEN 0 - nearest ELSE nearest

\* f32 addition and subtraction
f32_add(a, b) == f32_round(a + b)
f32_sub(a, b) == f32_round(a - b)

\* ------------------------------------------------------------------ block
\* Block::new
Block_new ==
    [index |-> 0, hash |-> ZeroHash, prev_hash |-> ZeroHash, timestamp |-> 0,
     merkle_root |-> ZeroHash, transactions |-> <<>>, nonce |-> 0]

\* Block::concatenate
concatenate(b) == <<b.index, b.prev_hash, b.timestamp, b.merkle_root, b.nonce>>

\* Block::calculate_hash
calculate_hash(b) == [b EXCEPT !.hash = calculate_sha256_hash(concatenate(b))]

\* Block::add_transaction
add_transaction(b, tx) == [b EXCEPT !.transactions = Append(@, tx)]

\* Block::set_index
set_index(b, index) == [b EXCEPT !.index = index]

\* Block::set_prev_hash_from_block
set_prev_hash_from_block(b, prev_block) == [b EXCEPT !.prev_hash = prev_block.hash]

\* Miner::mine builds its candidate from Block::new(), the pool and the tip
\* without setting index and prev_hash from the tip
candidate_block_unlinked(pool, last_block) ==
    [Block_new EXCEPT !.transactions = pool]

\* Miner::mine, the block handed to Block::mine: the pool cloned in order,
\* index and prev_hash taken from the last block
candidate_block(pool, last_block) ==
    set_prev_hash_from_block(
        set_index([Block_new EXCEPT !.transactions = pool], last_block.index + 1),
        last_block)

\* Block::mine putting the reward transaction in front of the block's
\* transactions instead of behind them
Block_mine_begin_reward_first(b, time, reward, pub_key_hash) ==
    calculate_hash(
        [b EXCEPT !.timestamp = time,
                  !.transactions =
                      <<Transaction_new(<<>>, <<TxOut_new(reward, pub_key_hash)>>)>> \o @])

\* Block::mine up to the first calculate_hash of mine_until_done: timestamp
\* from the clock, the reward transaction appended, the hash computed
Block_mine_begin(b, time, reward, pub_key_hash) ==
    calculate_hash(
        add_transaction([b EXCEPT !.timestamp = time],
                        Transaction_new(<<>>, <<TxOut_new(reward, pub_key_hash)>>)))

\* a loop that goes on while the count is at most the difficulty
search_done_strict(b, difficulty) == ~(leading_zeros_count(hex_encode(b.hash)) <= difficulty)

\* Block::mine_until_done, the loop condition negated
search_done(b, difficulty) == ~(leading_zeros_count(hex_encode(b.hash)) < difficulty)

\* -------------------------------------------------------------- database
\* an encoding that writes prev_hash before hash
serialize_prev_hash_first(b) ==
    <<b.index, b.prev_hash, b.hash, b.timestamp, b.merkle_root, b.transactions, b.nonce>>

\* bincode::serialize of a Block: the fields in declaration order
serialize(b) ==
    <<b.index, b.hash, b.prev_hash, b.timestamp, b.merkle_root, b.transactions, b.nonce>>

\* bincode::deserialize of a Block
deserialize(v) ==
    [index |-> v[1], hash |-> v[2], prev_hash |-> v[3], timestamp |-> v[4],
     merkle_root |-> v[5], transactions |-> v[6], nonce |-> v[7]]

\* BlockHashKeys::LastBlock.to_bytes()
LastBlock == "last_block"

\* LedgerColumn::put on a column (a map from keys to values)
Column_put(cf, key, value) ==
    [k \in (DOMAIN cf) \cup {key} |-> IF k = key THEN value ELSE cf[k]]

\* the empty column
EmptyColumn == [k \in {} |-> <<>>]

\* Option: None and Some(x)
None == <<>>
Some(x) == <<x>>

\* Database::get_block
get_block(bcf, hash) ==
    IF hash \in DOMAIN bcf THEN Some(deserialize(bcf[hash])) ELSE None

\* Database::get_last_block, both reads succeeding
get_last_block(bhcf, bcf) ==
    IF LastBlock \in DOMAIN bhcf
    THEN get_block(bcf, bhcf[LastBlock])
    ELSE None

\* Database::put_block, the write succeeding: only the block column is written
put_block(bcf, b) == Column_put(bcf, b.hash, serialize(b))

\* the block of the store's tests: Block::new(), set_index(0), calculate_hash()
TestBlock == calculate_hash(set_index(Block_new, 0))

\* ------------------------------------------------------------------ miner
\* Miner.pub_key_hash: the hash of the address the miner was created with
miner_pub_key_hash == public_key_hash("k1")

\* Miner::verify_tx
verify_tx(tx) == TRUE

\* Miner::clear_tx_pool: its body is commented out
clear_tx_pool(pool) == pool

\* transactions handed to add_tx_to_tx_pool
SubmittedTxs ==
    {generate_tx(1, 1), generate_tx(0, 1), Transaction_hash(generate_tx(2, 1))}

VARIABLES
    current_difficulty, \* Miner.current_difficulty
    tx_pool,            \* Miner.tx_pool
    block_cf,           \* the "block" column: block hash -> serialized block
    block_hash_cf,      \* the "block_hash" column: symbolic key -> block hash
    pc,                 \* "idle", "mining" (inside mine_until_done), "panicked"
    block,              \* the block Miner::mine is working on
    calls,              \* number of Miner::mine calls started
    result,             \* what the last Miner::mine call returned
    block_result,       \* what Block::mine returned inside the last call
    failure,            \* store or clock failure injected into the last call
    store_at_call,      \* the two columns when the last call started
    pool_at_call,       \* tx_pool when the last call started
    pool_at_return,     \* tx_pool when the last call returned
    mined               \* the blocks persisted by Miner::mine, in order

miner_vars ==
    <<current_difficulty, tx_pool, block_cf, block_hash_cf, pc, block, calls, result,
      block_result, failure, store_at_call, pool_at_call, pool_at_return, mined>>



\* Database::open on a store that is new, or holds what the store's tests
\* wrote: the last_block pointer (add_meta), and the block itself (add_block)
InitialStores ==
    { [blocks |-> EmptyColumn, hashes |-> EmptyColumn],
      [blocks |-> EmptyColumn, hashes |-> Column_put(EmptyColumn, LastBlock, TestBlock.hash)],
      [blocks |-> put_block(EmptyColumn, TestBlock),
       hashes |-> Column_put(EmptyColumn, LastBlock, TestBlock.hash)] }

\* Miner::new over Database::open
InitMiner ==
    /\ current_difficulty \in 0..MaxDifficulty
    /\ tx_pool = <<>>
    /\ \E s \in InitialStores : block_cf = s.blocks /\ block_hash_cf = s.hashes
    /\ pc = "idle"
    /\ block = Block_new
    /\ calls = 0
    /\ result = "none"
    /\ block_result = "none"
    /\ failure = "none"
    /\ store_at_call = [blocks |-> block_cf, hashes |-> block_hash_cf]
    /\ pool_at_call = <<>>
    /\ pool_at_return = <<>>
    /\ mined = <<>>

\* ----------------------------------------------------------------- wallet
\* UTXO::new
UTXO_new(reference, n, amount) == [reference |-> reference, n |-> n, amount |-> amount]

\* Wallet::get_and_set_utxo: two fixed outputs are pushed
get_and_set_utxo(utxo) ==
    utxo \o <<UTXO_new([of |-> <<1>>], 123, 10 * Unit),
              UTXO_new([of |-> <<2>>], 123, 5 * Unit)>>

\* the total of a list of unspent outputs
RECURSIVE utxo_total(_)
utxo_total(utxo) ==
    IF utxo = <<>> THEN 0 ELSE Head(utxo).amount + utxo_total(Tail(utxo))

\* Wallet::get_public_key_hash over get_address / get_signing_key
get_public_key_hash(private_keys, current) ==
    IF ~(current < Len(private_keys)) THEN [kind |-> "IndexOutOfRange", value |-> None]
    ELSE IF ~ValidKey(private_keys[current + 1])
         THEN [kind |-> "InvalidSigningKey", value |-> None]
         ELSE [kind |-> "Ok", value |-> Some(public_key_hash(private_keys[current + 1]))]

\* Wallet::create_transaction: utxo[0] and utxo[1] are indexed without a
\* bounds check, later entries are not read
create_transaction(utxo, private_keys, current, amount, destination) ==
    IF Len(utxo) < 2 THEN [kind |-> "panic", tx |-> None]
    ELSE
      LET inputs_total_amount == f32_add(utxo[1].amount, utxo[2].amount)
          pkh == get_public_key_hash(private_keys, current)
          pub == get_public_key_hex(private_keys[current + 1])
      IN  IF pkh.kind # "Ok" THEN [kind |-> pkh.kind, tx |-> None]
          ELSE IF inputs_total_amount > amount
               THEN [kind |-> "Ok",
                     tx |-> Some(Transaction_new(
                         <<TxIn_new(0, pub, utxo[1].reference),
                           TxIn_new(0, pub, utxo[2].reference)>>,
                         <<TxOut_new(amount, destination),
                           TxOut_new(f32_sub(inputs_total_amount, amount), pkh.value[1])>>))]
               ELSE [kind |-> "NotEnoughFunds", tx |-> None]

\* amounts given to the SEND command: 5, 15 and 20 coins and the smallest
\* amount, each one an f32 value
SendAmounts == {5 * Unit, 15 * Unit, 20 * Unit, 1}

\* the 20 bytes of a public-key hash, each byte named by the hash and its place
hash_bytes(h) == [i \in 1..20 |-> [of |-> h, at |-> i]]

\* crypto::add_prefix_to_public_key_hash
add_prefix_to_public_key_hash(prefix, hash) == <<prefix>> \o hash

\* crypto::get_check_sum: the first four bytes of the double digest
get_check_sum(data) ==
    [i \in 1..4 |->
        [of |-> calculate_sha256_hash(<<calculate_sha256_hash(data)>>), at |-> i]]

\* an address string: whether it is made of Base58 characters and, when it
\* is, the bytes it decodes to
to_base58(bytes) == [base58 |-> TRUE, payload |-> bytes]
from_base58(address) ==
    IF address.base58 THEN [kind |-> "Ok", value |-> address.payload]
    ELSE [kind |-> "Err", value |-> <<>>]

\* crypto::get_address, from the public-key hash of the key
address_of_hash(h) ==
    LET prefixed == add_prefix_to_public_key_hash(0, hash_bytes(h))
    IN  to_base58(prefixed \o get_check_sum(prefixed))

\* crypto::address_to_public_key_hash: the first byte and the last four are
\* dropped from a payload of 25 bytes; the last four are not compared with
\* the checksum of the rest
address_to_public_key_hash(address) ==
    LET decoded == from_base58(address)
    IN  IF decoded.kind = "Ok" /\ Len(decoded.value) = 25
        THEN [kind |-> "Ok", value |-> SubSeq(decoded.value, 2, 21)]
        ELSE [kind |-> "Base58DecodeError", value |-> <<>>]

\* the addresses typed into the SEND command: two well-formed ones, one whose
\* last four bytes are the checksum of another address, one a byte short, one
\* a byte long, and one with a character outside the Base58 alphabet
Addresses ==
    LET a == address_of_hash(public_key_hash("k_a"))
        b == address_of_hash(public_key_hash("k_b"))
    IN  { a, b,
          to_base58(SubSeq(a.payload, 1, 21) \o SubSeq(b.payload, 22, 25)),
          to_base58(SubSeq(a.payload, 1, 20) \o SubSeq(a.payload, 22, 25)),
          to_base58(SubSeq(a.payload, 1, 21) \o SubSeq(a.payload, 21, 25)),
          [base58 |-> FALSE, payload |-> a.payload] }

\* what the signer hands back: a signature by the key over the digest, one
\* that is well encoded but does not verify, or bytes that are not DER
SignatureFaults == {"none", "wrong", "malformed"}

\* crypto::get_signature
get_signature(signing_key, data, fault) ==
    [der |-> fault # "malformed",
     key |-> IF fault = "wrong" THEN "k_other" ELSE signing_key,
     data |-> data]

\* crypto::verify_signature
verify_signature(public_key, der_signature, message) ==
    IF ValidKey(public_key.pub_of)
    THEN IF der_signature.der
         THEN [kind |-> "Ok",
               value |-> der_signature.key = public_key.pub_of
                            /\ der_signature.data = message]
         ELSE [kind |-> "InvalidSignature", value |-> FALSE]
    ELSE [kind |-> "InvalidPubKey", value |-> FALSE]

\* Wallet::get_signing_key
get_signing_key(private_keys, current) ==
    IF ~(current < Len(private_keys)) THEN [kind |-> "IndexOutOfRange", value |-> None]
    ELSE IF ~ValidKey(private_keys[current + 1])
         THEN [kind |-> "InvalidSigningKey", value |-> None]
         ELSE [kind |-> "Ok", value |-> Some(private_keys[current + 1])]

\* Transaction::set_signature with the hex encoding of the signature
set_signature(tx, signature) == [tx EXCEPT !.signature = <<signature>>]

\* Wallet::sign_tx: the result of verify_signature is unwrapped, so an error
\* from it is a panic; any other failure returns InvalidSigningKey
sign_tx(tx, private_keys, current, fault) ==
    LET signing_key == get_signing_key(private_keys, current)
    IN  IF signing_key.kind # "Ok" THEN [kind |-> "InvalidSigningKey", tx |-> tx]
        ELSE
          LET transaction_data == calculate_sha256_hash(get_transaction_data(tx, FALSE))
              signature == get_signature(signing_key.value[1], transaction_data, fault)
              public_key == get_public_key_hex(signing_key.value[1])
              verified == verify_signature(public_key, signature, transaction_data)
          IN  IF verified.kind # "Ok" THEN [kind |-> "panic", tx |-> tx]
              ELSE IF verified.value
                   THEN [kind |-> "Ok", tx |-> set_signature(tx, signature)]
                   ELSE [kind |-> "InvalidSigningKey", tx |-> tx]

VARIABLES
    private_keys,       \* Wallet.private_keys
    key_file,           \* the lines of keys.txt
    utxo,               \* Wallet.utxo
    wallet_pc,          \* "running" or "panicked"
    send_amount,        \* the amount of the last SEND
    send_utxo,          \* Wallet.utxo at the last SEND
    send_result,        \* what create_transaction returned to that SEND
    wallet_op,          \* the wallet operation that ran last
    keys_before,        \* Wallet.private_keys when that operation started
    file_before,        \* the lines of keys.txt when that operation started
    send_address,       \* the address of the last SEND
    address_result,     \* what address_to_public_key_hash returned to the last SEND
    sign_fault,         \* what the signer handed back to the last sign_tx
    sign_input,         \* the transaction given to the last sign_tx
    sign_result,        \* what the last sign_tx returned, and the transaction after it
    sent_tx             \* the transaction the last SEND printed

\* a Transaction a caller is building
VARIABLE built_tx

wallet_vars ==
    <<private_keys, key_file, utxo, wallet_pc, send_amount, send_utxo, send_result,
      wallet_op, keys_before, file_before, send_address, address_result,
      sign_fault, sign_input, sign_result, sent_tx>>

\* Wallet.current_private_key, never changed after Wallet::new
current_private_key == 0

\* Miner::add_tx_to_tx_pool
add_tx_to_tx_pool(tx) ==
    /\ pc = "idle"
    /\ Len(tx_pool) < MaxPool
    /\ tx_pool' = IF verify_tx(tx) THEN Append(tx_pool, tx) ELSE tx_pool
    /\ UNCHANGED <<current_difficulty, block_cf, block_hash_cf, pc, block, calls, result,
                   block_result, failure, store_at_call, pool_at_call, pool_at_return, mined,
                   wallet_vars, built_tx>>

\* Miner::mine, get_last_block failing: the error is propagated by `?`
MineReadError ==
    /\ pc = "idle" /\ calls < MaxMines
    /\ calls' = calls + 1
    /\ result' = "DatabaseError"
    /\ block_result' = "none"
    /\ failure' = "read"
    /\ store_at_call' = [blocks |-> block_cf, hashes |-> block_hash_cf]
    /\ pool_at_call' = tx_pool
    /\ UNCHANGED <<current_difficulty, tx_pool, block_cf, block_hash_cf, pc, block, mined,
                   wallet_vars, built_tx>>
    /\ pool_at_return' = tx_pool'

\* Miner::mine, get_last_block returning Ok(None): falls through to MiningError
MineNoTip ==
    /\ pc = "idle" /\ calls < MaxMines
    /\ get_last_block(block_hash_cf, block_cf) = None
    /\ calls' = calls + 1
    /\ result' = "MiningError"
    /\ block_result' = "none"
    /\ failure' = "none"
    /\ store_at_call' = [blocks |-> block_cf, hashes |-> block_hash_cf]
    /\ pool_at_call' = tx_pool
    /\ UNCHANGED <<current_difficulty, tx_pool, block_cf, block_hash_cf, pc, block, mined,
                   wallet_vars, built_tx>>
    /\ pool_at_return' = tx_pool'

\* Miner::mine with a tip, Block::mine failing to read the clock
MineClockError ==
    /\ pc = "idle" /\ calls < MaxMines
    /\ get_last_block(block_hash_cf, block_cf) # None
    /\ LET last_block == get_last_block(block_hash_cf, block_cf)[1]
       IN  /\ block' = candidate_block(tx_pool, last_block)
           /\ store_at_call' = [blocks |-> block_cf, hashes |-> block_hash_cf]
    /\ calls' = calls + 1
    /\ result' = "MiningError"
    /\ block_result' = "Err"
    /\ failure' = "clock"
    /\ pool_at_call' = tx_pool
    /\ UNCHANGED <<current_difficulty, tx_pool, block_cf, block_hash_cf, pc, mined,
                   wallet_vars, built_tx>>
    /\ pool_at_return' = tx_pool'

\* Miner::mine draining the pool into the candidate instead of cloning it
MineStartDrain(time) ==
    /\ pc = "idle" /\ calls < MaxMines
    /\ get_last_block(block_hash_cf, block_cf) # None
    /\ LET last_block == get_last_block(block_hash_cf, block_cf)[1]
       IN  /\ block' = Block_mine_begin(candidate_block(tx_pool, last_block), time,
                                        current_reward, miner_pub_key_hash)
           /\ store_at_call' = [blocks |-> block_cf, hashes |-> block_hash_cf]
    /\ tx_pool' = <<>>
    /\ calls' = calls + 1
    /\ pc' = "mining"
    /\ result' = "none"
    /\ block_result' = "none"
    /\ failure' = "none"
    /\ pool_at_call' = tx_pool
    /\ UNCHANGED <<current_difficulty, block_cf, block_hash_cf, pool_at_return, mined,
                   wallet_vars, built_tx>>

\* Miner::mine with a tip and a readable clock, up to the first hash of
\* mine_until_done
MineStart(time) ==
    /\ pc = "idle" /\ calls < MaxMines
    /\ get_last_block(block_hash_cf, block_cf) # None
    /\ LET last_block == get_last_block(block_hash_cf, block_cf)[1]
       IN  /\ block' = Block_mine_begin(candidate_block(tx_pool, last_block), time,
                                        current_reward, miner_pub_key_hash)
           /\ store_at_call' = [blocks |-> block_cf, hashes |-> block_hash_cf]
    /\ calls' = calls + 1
    /\ pc' = "mining"
    /\ result' = "none"
    /\ block_result' = "none"
    /\ failure' = "none"
    /\ pool_at_call' = tx_pool
    /\ UNCHANGED <<current_difficulty, tx_pool, block_cf, block_hash_cf, pool_at_return, mined,
                   wallet_vars, built_tx>>

\* an iteration that recomputes the hash before it increments the nonce
MineStepStaleHash ==
    /\ pc = "mining"
    /\ ~search_done(block, current_difficulty)
    /\ block.nonce + 1 < NonceMod
    /\ block' = [calculate_hash(block) EXCEPT !.nonce = @ + 1]
    /\ UNCHANGED <<current_difficulty, tx_pool, block_cf, block_hash_cf, pc, calls, result,
                   block_result, failure, store_at_call, pool_at_call, pool_at_return, mined,
                   wallet_vars, built_tx>>

\* Block::mine_until_done, one iteration of the loop
MineStep ==
    /\ pc = "mining"
    /\ ~search_done(block, current_difficulty)
    /\ block.nonce + 1 < NonceMod
    /\ block' = calculate_hash([block EXCEPT !.nonce = @ + 1])
    /\ UNCHANGED <<current_difficulty, tx_pool, block_cf, block_hash_cf, pc, calls, result,
                   block_result, failure, store_at_call, pool_at_call, pool_at_return, mined,
                   wallet_vars, built_tx>>

\* Block::mine_until_done, nonce += 1 at the largest nonce, overflow checks on:
\* the addition panics
MineStepOverflowPanic ==
    /\ pc = "mining"
    /\ ~search_done(block, current_difficulty)
    /\ block.nonce + 1 = NonceMod
    /\ pc' = "panicked"
    /\ result' = "panic"
    /\ UNCHANGED <<current_difficulty, tx_pool, block_cf, block_hash_cf, block, calls,
                   block_result, failure, store_at_call, pool_at_call, mined,
                   wallet_vars, built_tx>>
    /\ pool_at_return' = tx_pool'

\* Block::mine_until_done, nonce += 1 at the largest nonce, overflow checks off:
\* the nonce wraps to 0
MineStepOverflowWrap ==
    /\ pc = "mining"
    /\ ~search_done(block, current_difficulty)
    /\ block.nonce + 1 = NonceMod
    /\ block' = calculate_hash([block EXCEPT !.nonce = (@ + 1) % NonceMod])
    /\ UNCHANGED <<current_difficulty, tx_pool, block_cf, block_hash_cf, pc, calls, result,
                   block_result, failure, store_at_call, pool_at_call, pool_at_return, mined,
                   wallet_vars, built_tx>>

\* Miner::mine after Block::mine returned Ok: put_block succeeds, the pool is
\* "cleared", Ok is returned
MineCommit ==
    /\ pc = "mining"
    /\ search_done(block, current_difficulty)
    /\ block_cf' = put_block(block_cf, block)
    /\ tx_pool' = clear_tx_pool(tx_pool)
    /\ pc' = "idle"
    /\ result' = "Ok"
    /\ block_result' = "Ok"
    /\ pool_at_return' = tx_pool'
    /\ mined' = Append(mined, block)
    /\ UNCHANGED <<current_difficulty, block_hash_cf, block, calls, failure, store_at_call,
                   pool_at_call,
                   wallet_vars, built_tx>>

\* Miner::mine after Block::mine returned Ok: put_block fails and `?` returns
\* the error before clear_tx_pool
MinePutError ==
    /\ pc = "mining"
    /\ search_done(block, current_difficulty)
    /\ pc' = "idle"
    /\ result' = "DatabaseError"
    /\ block_result' = "Ok"
    /\ failure' = "write"
    /\ UNCHANGED <<current_difficulty, tx_pool, block_cf, block_hash_cf, block, calls,
                   store_at_call, pool_at_call, mined,
                   wallet_vars, built_tx>>
    /\ pool_at_return' = tx_pool'

\* Wallet::new, over a key file that is empty or holds earlier keys
InitWallet ==
    /\ private_keys = <<>>
    /\ key_file \in {<<>>, <<"k1">>, <<"k1", "k2">>}
    /\ utxo = <<>>
    /\ wallet_pc = "running"
    /\ send_amount = 0
    /\ send_utxo = <<>>
    /\ send_result = [kind |-> "none", tx |-> None]
    /\ wallet_op = "none"
    /\ keys_before = <<>>
    /\ file_before = <<>>
    /\ send_address = [base58 |-> FALSE, payload |-> <<>>]
    /\ address_result = [kind |-> "none", value |-> <<>>]
    /\ sign_fault = "none"
    /\ sign_input = None
    /\ sign_result = [kind |-> "none", tx |-> None]
    /\ sent_tx = None

\* a wallet operation that is not a SEND leaves nothing of an earlier SEND
\* on the terminal
no_send ==
    /\ send_amount' = 0
    /\ send_utxo' = <<>>
    /\ send_result' = [kind |-> "none", tx |-> None]
    /\ send_address' = [base58 |-> FALSE, payload |-> <<>>]
    /\ address_result' = [kind |-> "none", value |-> <<>>]
    /\ sent_tx' = None

\* nor of an earlier sign_tx
no_sign ==
    /\ sign_fault' = "none"
    /\ sign_input' = None
    /\ sign_result' = [kind |-> "none", tx |-> None]

\* the snapshot every wallet operation takes when it starts
begin_wallet_op(op) ==
    /\ wallet_op' = op
    /\ keys_before' = private_keys
    /\ file_before' = key_file

\* Wallet::add_key_to_wallet for every line of the file
RECURSIVE add_keys_to_wallet(_, _)
add_keys_to_wallet(keys, lines) ==
    IF lines = <<>> THEN keys
    ELSE add_keys_to_wallet(
            IF \E i \in 1..Len(keys) : keys[i] = Head(lines)
            THEN keys ELSE Append(keys, Head(lines)),
            Tail(lines))

\* an initialize that generates and stores a key whatever the file holds
InitializeAlwaysGenerates ==
    /\ wallet_pc = "running"
    /\ Len(utxo) < 2 * MaxInit
    /\ \E k \in Keys :
          /\ private_keys' = add_keys_to_wallet(Append(private_keys, k), key_file)
          /\ key_file' = Append(key_file, k)
    /\ utxo' = get_and_set_utxo(utxo)
    /\ begin_wallet_op("initialize")
    /\ no_send /\ no_sign
    /\ UNCHANGED <<wallet_pc, miner_vars, built_tx>>

\* Wallet::initialize, the file readable and writable: an empty file gets one
\* generated key, otherwise the file's keys are loaded; then the outputs are set
Initialize ==
    /\ wallet_pc = "running"
    /\ Len(utxo) < 2 * MaxInit
    /\ IF key_file = <<>>
       THEN \E k \in Keys :
               /\ private_keys' = Append(private_keys, k)
               /\ key_file' = Append(key_file, k)
       ELSE /\ private_keys' = add_keys_to_wallet(private_keys, key_file)
            /\ UNCHANGED key_file
    /\ utxo' = get_and_set_utxo(utxo)
    /\ begin_wallet_op("initialize")
    /\ no_send /\ no_sign
    /\ UNCHANGED <<wallet_pc, miner_vars, built_tx>>

\* Wallet::initialize, reading the key file fails: initialize panics
InitializeReadError ==
    /\ wallet_pc = "running"
    /\ Len(utxo) < 2 * MaxInit
    /\ wallet_pc' = "panicked"
    /\ begin_wallet_op("initialize")
    /\ no_send /\ no_sign
    /\ UNCHANGED <<private_keys, key_file, utxo, miner_vars, built_tx>>

\* Wallet::initialize on an empty file, storing the generated key fails: the
\* key is already in private_keys when initialize panics
InitializeStoreError ==
    /\ wallet_pc = "running"
    /\ Len(utxo) < 2 * MaxInit
    /\ key_file = <<>>
    /\ \E k \in Keys : private_keys' = Append(private_keys, k)
    /\ wallet_pc' = "panicked"
    /\ begin_wallet_op("initialize")
    /\ no_send /\ no_sign
    /\ UNCHANGED <<key_file, utxo, miner_vars, built_tx>>

\* Wallet::cli_new_private_key: generate_private_key pushes the key, then
\* store_private_key appends it to the file or fails
NewPrivateKey(stored) ==
    /\ wallet_pc = "running"
    /\ \E k \in Keys :
          /\ \A i \in 1..Len(private_keys) : private_keys[i] # k
          /\ private_keys' = Append(private_keys, k)
          /\ key_file' = IF stored THEN Append(key_file, k) ELSE key_file
    /\ begin_wallet_op("new_private_key")
    /\ no_send /\ no_sign
    /\ UNCHANGED <<utxo, wallet_pc, miner_vars, built_tx>>

\* Wallet::cli_send: the address is decoded, the transaction created, signed,
\* hashed and printed; each failure ends the command with a message
CliSend(amount, address, fault) ==
    /\ wallet_pc = "running"
    /\ \E destination \in {address_to_public_key_hash(address)} :
       \E created \in {IF destination.kind = "Ok"
                        THEN create_transaction(utxo, private_keys, current_private_key,
                                                amount, destination.value)
                        ELSE [kind |-> "none", tx |-> None]} :
       \E signed \in {IF created.kind = "Ok"
                       THEN sign_tx(created.tx[1], private_keys, current_private_key, fault)
                       ELSE [kind |-> "none", tx |-> None]} :
          \* the signer is reached only with a created transaction
          /\ created.kind = "Ok" \/ fault = "none"
          /\ send_amount' = amount
          /\ send_utxo' = utxo
          /\ send_address' = address
          /\ address_result' = destination
          /\ send_result' = created
          /\ sign_fault' = IF created.kind = "Ok" THEN fault ELSE "none"
          /\ sign_input' = created.tx
          /\ sign_result' = IF created.kind = "Ok"
                            THEN [kind |-> signed.kind, tx |-> Some(signed.tx)]
                            ELSE signed
          /\ sent_tx' = IF signed.kind = "Ok" THEN Some(Transaction_hash(signed.tx)) ELSE None
          /\ wallet_pc' = IF created.kind = "panic" \/ signed.kind = "panic"
                          THEN "panicked" ELSE "running"
    /\ begin_wallet_op("send")
    /\ UNCHANGED <<private_keys, key_file, utxo, miner_vars, built_tx>>

\* Wallet::sign_tx on a transaction built by hand, as the wallet's signature
\* test calls it
SignTx(tx, fault) ==
    /\ wallet_pc = "running"
    /\ \E signed \in {sign_tx(tx, private_keys, current_private_key, fault)} :
          /\ sign_fault' = fault
          /\ sign_input' = Some(tx)
          /\ sign_result' = [kind |-> signed.kind, tx |-> Some(signed.tx)]
          /\ wallet_pc' = IF signed.kind = "panic" THEN "panicked" ELSE "running"
    /\ begin_wallet_op("sign_tx")
    /\ no_send
    /\ UNCHANGED <<private_keys, key_file, utxo, miner_vars, built_tx>>

\* the transactions the signature test builds
SignedByHand == {generate_tx(2, 2)}

\* the inputs and outputs a caller adds to a transaction
AddedInputs ==
    {TxIn_new(0, get_public_key_hex("k1"), ZeroHash),
     TxIn_new(1, get_public_key_hex("k1"), [of |-> <<1>>])}
AddedOutputs ==
    {TxOut_new(10 * Unit, ZeroPubKeyHash), TxOut_new(5 * Unit, ZeroPubKeyHash)}

\* no transaction is under construction yet: Transaction::new(vec![], vec![])
InitTx == built_tx = Transaction_new(<<>>, <<>>)

\* Transaction::new on generated inputs and outputs
TxNew(in_n, out_n) ==
    /\ built_tx' = generate_tx(in_n, out_n)
    /\ UNCHANGED <<miner_vars, wallet_vars>>

\* Transaction::add_tx_input on the transaction under construction
TxAddInput(tx_in) ==
    /\ Len(built_tx.inputs) < MaxTxLen
    /\ built_tx' = add_tx_input(built_tx, tx_in)
    /\ UNCHANGED <<miner_vars, wallet_vars>>

\* Transaction::add_tx_output on the transaction under construction
TxAddOutput(tx_out) ==
    /\ Len(built_tx.outputs) < MaxTxLen
    /\ built_tx' = add_tx_output(built_tx, tx_out)
    /\ UNCHANGED <<miner_vars, wallet_vars>>

vars == <<miner_vars, wallet_vars, built_tx>>

\* Miner::new and Wallet::new, the key file still empty
Init == InitMiner /\ InitWallet /\ key_file = <<>> /\ InitTx

Next ==
    \/ \E tx \in SubmittedTxs : add_tx_to_tx_pool(tx)
    \/ MineReadError
    \/ MineNoTip
    \/ MineClockError
    \/ \E time \in 1..MaxTime : MineStart(time)
    \/ MineStep
    \/ MineStepOverflowPanic
    \/ MineStepOverflowWrap
    \/ MineCommit
    \/ MinePutError

\* the miner on its store
Spec == Init /\ [][Next]_vars

\* Application::new(2) on a new store
InitW ==
    /\ InitWallet
    /\ InitMiner
    /\ current_difficulty = 2
    /\ block_cf = EmptyColumn /\ block_hash_cf = EmptyColumn
    /\ InitTx

NextW ==
    \/ Initialize
    \/ InitializeReadError
    \/ InitializeStoreError
    \/ \E stored \in BOOLEAN : NewPrivateKey(stored)
    \/ \E amount \in SendAmounts, address \in Addresses, fault \in SignatureFaults :
          CliSend(amount, address, fault)
    \/ \E tx \in SignedByHand, fault \in SignatureFaults : SignTx(tx, fault)

\* the wallet
SpecWallet == InitW /\ [][NextW]_vars

NextTx ==
    \/ \E in_n \in 0..2, out_n \in 0..2 : TxNew(in_n, out_n)
    \/ \E tx_in \in AddedInputs : TxAddInput(tx_in)
    \/ \E tx_out \in AddedOutputs : TxAddOutput(tx_out)

\* Transaction::new(vec![], vec![]) beside an idle miner and wallet
InitT == InitW /\ key_file = <<>>

\* a caller building a transaction
SpecTx == InitT /\ [][NextTx]_vars

\* ----------------------------------------------------------- properties
\* the blocks held by the block column
StoredBlocks == {deserialize(block_cf[h]) : h \in DOMAIN block_cf}

\* a block with index 0 and the all-zero prev_hash
IsGenesis(b) == b.index = 0 /\ b.prev_hash = ZeroHash

\* the positions of the transactions of b that have no inputs
RewardPositions(b) ==
    {j \in 1..Len(b.transactions) : Len(b.transactions[j].inputs) = 0}

\* C1: whenever Block::mine returned Ok, the hex encoding of the block's hash
\* starts with at least `difficulty` characters '0'.
C1_MinedHashMeetsDifficulty ==
    block_result = "Ok" =>
        \A i \in 1..current_difficulty :
            i <= Len(hex_encode(block.hash)) /\ hex_encode(block.hash)[i] = 0

\* Block::mine returned Ok at a difficulty of at least 1 after searching past nonce 0
C1_Witness ==
    block_result = "Ok" /\ current_difficulty >= 1 /\ block.nonce > 0

\* C2: on an empty store, with no store or clock failure, the first
\* Miner::mine call returns Ok and persists a block with index 0, the all-zero
\* prev_hash and exactly one transaction, the reward.
C2_GenesisOnEmptyStore ==
    (/\ calls = 1 /\ result # "none" /\ failure = "none"
     /\ store_at_call = [blocks |-> EmptyColumn, hashes |-> EmptyColumn])
    => /\ result = "Ok"
       /\ Len(mined) = 1
       /\ mined[1] \in StoredBlocks
       /\ IsGenesis(mined[1])
       /\ Len(mined[1].transactions) = 1
       /\ RewardPositions(mined[1]) = {1}

\* C3: of two consecutive successful Miner::mine calls, the second persists a
\* block whose prev_hash is the hash of the first one's block and whose index
\* is that block's index plus 1.
C3_ChainExtension ==
    \A i \in 1..(Len(mined) - 1) :
        /\ mined[i + 1].prev_hash = mined[i].hash
        /\ mined[i + 1].index = mined[i].index + 1

\* C4: after put_block(b) returned Ok, the last_block pointer holds b's hash
\* and get_last_block returns b.
C4_PutBlockMovesPointer ==
    result = "Ok" =>
        /\ LastBlock \in DOMAIN block_hash_cf
        /\ block_hash_cf[LastBlock] = block.hash
        /\ get_last_block(block_hash_cf, block_cf) = Some(block)

\* C5: after a successful Miner::mine, no transaction of the pool has the hash
\* of a transaction of the block just committed.
C5_PoolClearedOfCommitted ==
    result = "Ok" =>
        \A i \in 1..Len(pool_at_return), j \in 1..Len(block.transactions) :
            pool_at_return[i].hash # block.transactions[j].hash

\* C6: no two entries of the pending pool have the same hash.
C6_PoolDuplicateFree ==
    \A i, j \in 1..Len(tx_pool) : i # j => tx_pool[i].hash # tx_pool[j].hash

\* C7: every block persisted by Miner::mine has exactly one transaction with
\* zero inputs, and that one has a single output paying the miner.
C7_ExactlyOneReward ==
    \A k \in 1..Len(mined) :
        /\ Cardinality(RewardPositions(mined[k])) = 1
        /\ \A j \in RewardPositions(mined[k]) :
              /\ Len(mined[k].transactions[j].outputs) = 1
              /\ mined[k].transactions[j].outputs[1].destination = miner_pub_key_hash

\* C8: when Miner::mine returns an error, the pool at the return is the pool
\* the call started with.
C8_ErrorLeavesPool ==
    result \in {"MiningError", "DatabaseError"} => pool_at_return = pool_at_call

\* put_block failed after a block holding pool transactions had been mined
C8_Witness ==
    result = "DatabaseError" /\ failure = "write" /\ pool_at_call # <<>>
        /\ Len(block.transactions) > 1

\* C9: at most one persisted block has index 0 and the all-zero prev_hash.
C9_AtMostOneGenesis ==
    Cardinality({b \in StoredBlocks : IsGenesis(b)}) <= 1

\* two Miner::mine calls have persisted blocks beside the one genesis block
C9_Witness ==
    /\ Len(mined) = 2
    /\ mined[1] \in StoredBlocks /\ mined[2] \in StoredBlocks
    /\ Cardinality({b \in StoredBlocks : IsGenesis(b)}) = 1

\* C10: create_transaction fails with NotEnoughFunds exactly when the total of
\* the available outputs is at most the amount, and returns a transaction,
\* without panicking, when the total is greater.
C10_NotEnoughFundsIffTotal ==
    send_result.kind # "none" =>
        /\ send_result.kind # "panic"
        /\ (send_result.kind = "NotEnoughFunds") <=> (utxo_total(send_utxo) <= send_amount)
        /\ (utxo_total(send_utxo) > send_amount) => (send_result.kind = "Ok")

\* the header digest of block b with its nonce set to n has at least
\* `difficulty` leading zero hex digits
nonce_qualifies(b, n, difficulty) ==
    leading_zeros_count(
        hex_encode([of |-> <<b.index, b.prev_hash, b.timestamp, b.merkle_root, n>>]))
      >= difficulty

C12_AddressChecksumVerified ==
    (wallet_op = "send" /\ address_result.kind # "none") =>
        LET decoded == from_base58(send_address)
            rejected ==
                \/ decoded.kind # "Ok"
                \/ Len(decoded.value) # 25
                \/ SubSeq(decoded.value, 22, 25) # get_check_sum(SubSeq(decoded.value, 1, 21))
        IN  /\ rejected => address_result.kind # "Ok"
            /\ address_result.kind = "Ok" => (Len(address_result.value) = 20 /\ ~rejected)

\* C13: two blocks mined with different transaction lists have different
\* merkle_root fields.
C13_MerkleRootCoversTransactions ==
    \A i, j \in 1..Len(mined) :
        mined[i].transactions # mined[j].transactions
            => mined[i].merkle_root # mined[j].merkle_root

C15_StoredHashIsHeaderDigest ==
    \A k \in 1..Len(mined) :
        /\ mined[k].hash \in DOMAIN block_cf
        /\ LET stored == deserialize(block_cf[mined[k].hash])
           IN  stored.hash = [of |-> <<stored.index, stored.prev_hash, stored.timestamp,
                                       stored.merkle_root, stored.nonce>>]

\* two blocks were persisted, one of them after a search past nonce 0
C15_Witness ==
    /\ Len(mined) = 2
    /\ mined[2].nonce > 0
    /\ mined[2].hash \in DOMAIN block_cf

\* the set of the elements of a sequence
Range(seq) == {seq[i] : i \in 1..Len(seq)}

\* C16: Wallet::initialize on an empty key file generates exactly one key and
\* appends it to the file; on a non-empty file it generates none, leaves the
\* file as it is and loads the keys the file lists.
C16_InitializeKeys ==
    (wallet_op = "initialize" /\ wallet_pc = "running") =>
        /\ Len(private_keys) >= Len(keys_before)
        /\ SubSeq(private_keys, 1, Len(keys_before)) = keys_before
        /\ IF file_before = <<>>
           THEN /\ Len(private_keys) = Len(keys_before) + 1
                /\ key_file = <<private_keys[Len(private_keys)]>>
           ELSE /\ key_file = file_before
                /\ Range(private_keys) = Range(keys_before) \cup Range(file_before)

\* initialize has run on an empty key file
C16_Witness ==
    /\ wallet_op = "initialize" /\ wallet_pc = "running"
    /\ file_before = <<>>
    /\ Len(key_file) = 1 /\ private_keys = key_file

C18_SmallestQualifyingNonce ==
    block_result = "Ok" =>
        /\ nonce_qualifies(block, block.nonce, current_difficulty)
        /\ \A n \in 0..(block.nonce - 1) : ~nonce_qualifies(block, n, current_difficulty)
        /\ current_difficulty = 0 => block.nonce = 0

\* Block::mine returned Ok after at least two nonces had been rejected
C18_Witness ==
    block_result = "Ok" /\ block.nonce >= 2 /\ current_difficulty = 1

\* C19: Block::mine fails only when the clock cannot be read: with the clock
\* readable the search is always on its way to a qualifying nonce that it
\* reaches before the nonce overflows, and it never ends in the overflow.
C19_MineFailsOnlyOnClock ==
    /\ block_result = "Err" => failure = "clock"
    /\ result # "panic"
    /\ pc = "mining" =>
          \E n \in block.nonce..(NonceMod - 1) : nonce_qualifies(block, n, current_difficulty)

\* C20: the transactions of a block built by Miner::mine are the pool of the
\* call in its order, followed by the reward transaction as the last element.
C20_PoolThenReward ==
    block_result = "Ok" =>
        LET txs == block.transactions
            n == Len(pool_at_call)
        IN  /\ Len(txs) = n + 1
            /\ \A i \in 1..n : txs[i] = pool_at_call[i]
            /\ Len(txs[n + 1].inputs) = 0
            /\ Len(txs[n + 1].outputs) = 1
            /\ txs[n + 1].outputs[1].amount = current_reward
            /\ txs[n + 1].outputs[1].destination = miner_pub_key_hash

\* a block was built from a pool of two different transactions
C20_Witness ==
    /\ block_result = "Ok"
    /\ Len(pool_at_call) = 2
    /\ pool_at_call[1] # pool_at_call[2]
    /\ Len(block.transactions) = 3

\* C21: a transaction returned by create_transaction has exactly two outputs,
\* the payment of `amount` to the destination and the change, strictly
\* positive, of the total of the referenced outputs minus the amount, to the
\* wallet's own public-key hash; the two outputs sum to that total.
C21_PaymentAndChange ==
    (wallet_op = "send" /\ send_result.kind = "Ok") =>
        LET tx == send_result.tx[1]
            total == send_utxo[1].amount + send_utxo[2].amount
        IN  /\ Len(tx.inputs) = 2
            /\ tx.inputs[1].prev_utxo = send_utxo[1].reference
            /\ tx.inputs[2].prev_utxo = send_utxo[2].reference
            /\ Len(tx.outputs) = 2
            /\ tx.outputs[1].amount = send_amount
            /\ tx.outputs[1].destination = address_result.value
            /\ tx.outputs[2].destination = public_key_hash(keys_before[current_private_key + 1])
            /\ tx.outputs[2].amount > 0
            /\ tx.outputs[2].amount = total - send_amount
            /\ tx.outputs[1].amount + tx.outputs[2].amount = total

\* C22: after any sequence of Transaction::new, add_tx_input and add_tx_output
\* the counters tx_in_sz and tx_out_sz, as they enter the signed and hashed
\* data, are the numbers of inputs and outputs of the transaction.
C22_CountersMatchLengths ==
    /\ built_tx.tx_in_sz = Len(built_tx.inputs)
    /\ built_tx.tx_out_sz = Len(built_tx.outputs)
    /\ get_transaction_data(built_tx, FALSE)[1] = Len(built_tx.inputs)
    /\ get_transaction_data(built_tx, FALSE)[2] = Len(built_tx.outputs)
    /\ get_transaction_data(built_tx, TRUE)[Len(built_tx.signature) + 1] = Len(built_tx.inputs)
    /\ get_transaction_data(built_tx, TRUE)[Len(built_tx.signature) + 2] = Len(built_tx.outputs)

\* C23: every transaction of a block persisted by Miner::mine, the reward
\* included, has a hash field that is the digest of its own content, so two
\* transactions of a block with different contents have different hashes.
C23_BlockTransactionsHashed ==
    \A k \in 1..Len(mined) :
        LET txs == mined[k].transactions
        IN  /\ \A j \in 1..Len(txs) :
                  txs[j].hash = calculate_sha256_hash(get_transaction_data(txs[j], TRUE))
            /\ \A i, j \in 1..Len(txs) :
                  get_transaction_data(txs[i], TRUE) # get_transaction_data(txs[j], TRUE)
                      => txs[i].hash # txs[j].hash

\* C24: once Wallet::initialize has run, after every further initialize and
\* NEWPRIVATEKEY command, a failed write to the key file included, the private
\* keys in memory are exactly the keys in the key file.
C24_MemoryKeysAreFileKeys ==
    (wallet_pc = "running" /\ Len(utxo) >= 2) =>
        Range(private_keys) = Range(key_file)

====
